---- MODULE Spec2Model ----
(***************************************************************************)
(* use-firebase-auth: the merge-reducer state container, the provider's    *)
(* auth-state subscription lifecycle and the auth facade of                *)
(* src/src/use-reduced-state.tsx.                                          *)
(*                                                                         *)
(* The Firebase SDK is the environment: every SDK promise settles with a   *)
(* nondeterministically chosen outcome, and the auth-state stream delivers *)
(* any user (or null) at any time while a listener is registered.          *)
(***************************************************************************)
EXTENDS Integers, Sequences, FiniteSets, Bags, TLC

\* ------------------------------------------------------------------ bounds
\* Number of facade calls that may be in flight at the same time.
MaxCalls == 2

\* ------------------------------------------------------------------ values
Undefined == "undefined"
Null == "null"

Users == {"u1"}

\* interface State / FirebaseAuthState: the four data fields.
Fields == {"user", "loading", "error", "firstCheck"}

\* Errors the SDK rejects with.  Each has a code and may carry the
\* conflicting email and the pending credential.
E_network == "FirebaseError(auth/network-request-failed)"
E_conflict == "FirebaseError(auth/account-exists-with-different-credential, email, credential)"
E_conflictNoCred == "FirebaseError(auth/account-exists-with-different-credential, email)"
\* What the SDK rejects a popup sign-in, a password sign-in or account
\* creation, and any other call with.
PopupErrors == {E_network, E_conflict, E_conflictNoCred}
PasswordErrors == {E_network}
OtherErrors == {E_network}

ErrCode(e) ==
    IF e \in {E_conflict, E_conflictNoCred}
    THEN "auth/account-exists-with-different-credential"
    ELSE "auth/network-request-failed"
ErrEmail(e) == IF e \in {E_conflict, E_conflictNoCred} THEN "x@example.com" ELSE Undefined
ErrCredential(e) == IF e = E_conflict THEN "pendingCredential" ELSE Undefined

\* Errors the facade itself throws.
Err_Unrecognized == "Error(Unrecognized provider)"
Err_NoProviderImplemented == "Error(No provider implemented)"
Err_Unsupported == "Error(Your account is linked to a provider that isn't supported.)"
Err_NotLoggedIn == "Error(User is not logged in)"
Err_NoProvider == "Error(No FirebaseAuthProvider found.)"

\* UserCredential objects the SDK resolves a sign-in with.
UserCredentials == {"credential(u1)"}
\* userCredential.user
CredentialUser(uc) == IF uc = "credential(u1)" THEN "u1" ELSE Undefined

\* ------------------------------------------------------- state container
\* A state or a patch is a function from the fields it carries to values.
Get(s, f) == IF f \in DOMAIN s THEN s[f] ELSE Undefined

\* (oldState, newState) => ({ ...oldState, ...newState })
Reduce_DropsOld(oldState, newState) == newState
Reduce(oldState, newState) ==
    [f \in (DOMAIN oldState) \cup (DOMAIN newState) |->
        IF f \in DOMAIN newState THEN newState[f] ELSE oldState[f]]

\* useReducedState({ user: ..., loading: false, firstCheck: false })
InitialState(firebaseCurrentUser) ==
    [user |-> IF firebaseCurrentUser = Null THEN Undefined ELSE firebaseCurrentUser,
     loading |-> FALSE,
     firstCheck |-> FALSE]

\* ------------------------------------------------------- auth providers
\* A provider object: its class, its provider id, the OAuth scopes added
\* with addScope and the login_hint custom parameter.
NewProvider(class, providerId) ==
    [class |-> class, providerId |-> providerId, scopes |-> <<>>, login_hint |-> Undefined]

NoProvider == NewProvider("none", "none")

GoogleAuthProvider == NewProvider("GoogleAuthProvider", "google.com")
FacebookAuthProvider == NewProvider("FacebookAuthProvider", "facebook.com")
TwitterAuthProvider == NewProvider("TwitterAuthProvider", "twitter.com")
GithubAuthProvider == NewProvider("GithubAuthProvider", "github.com")
OAuthProvider(providerId) == NewProvider("OAuthProvider", providerId)

\* enum SIGNIN_PROVIDERS
SIGNIN_PROVIDERS ==
    [PASSWORD |-> "password", GOOGLE |-> "google", FACEBOOK |-> "facebook",
     TWITTER |-> "twitter", GITHUB |-> "github", MICROSOFT |-> "microsoft",
     YAHOO |-> "yahoo"]

EnumValues == {SIGNIN_PROVIDERS[k] : k \in DOMAIN SIGNIN_PROVIDERS}

\* The provider argument of signInWithProvider: a string or a provider object.
StringArg(str) == [isString |-> TRUE, str |-> str, obj |-> NoProvider]
ObjectArg(obj) == [isString |-> FALSE, str |-> "", obj |-> obj]

ProviderArgs ==
    {StringArg(str) : str \in EnumValues \cup {"apple"}}
      \cup {ObjectArg(OAuthProvider("apple.com")),
            ObjectArg(NewProvider("SAMLAuthProvider", "saml.example"))}

\* The calls of signInWithProvider: every provider argument with scopes
\* requested, and a string and a provider object with no options (scopes []).
SignInArgs ==
    {<<provider, <<"email", "profile">>>> : provider \in ProviderArgs}
      \cup {<<StringArg("google"), <<>>>>, <<ObjectArg(OAuthProvider("apple.com")), <<>>>>}

\* x instanceof OAuthProvider
InstanceOfOAuthProvider(x) == x.class = "OAuthProvider"

\* The switch over the provider string; NoProvider stands for the default
\* branch, which throws.
ResolveProvider(provider) ==
    IF provider.isString
    THEN CASE provider.str = SIGNIN_PROVIDERS.GOOGLE -> GoogleAuthProvider
           [] provider.str = SIGNIN_PROVIDERS.FACEBOOK -> FacebookAuthProvider
           [] provider.str = SIGNIN_PROVIDERS.TWITTER -> TwitterAuthProvider
           [] provider.str = SIGNIN_PROVIDERS.GITHUB -> GithubAuthProvider
           [] provider.str = SIGNIN_PROVIDERS.MICROSOFT -> OAuthProvider("microsoft.com")
           [] provider.str = SIGNIN_PROVIDERS.YAHOO -> OAuthProvider("yahoo.com")
           [] OTHER -> NoProvider
    ELSE provider.obj

\* if (provider instanceof OAuthProvider) scopes.forEach(addScope): the test
\* is on the argument, and a string is an instance of no class.
AttachScopes(provider, providerObj, scopes) ==
    IF (~provider.isString) /\ InstanceOfOAuthProvider(provider.obj)
    THEN [providerObj EXCEPT !.scopes = @ \o scopes]
    ELSE providerObj

\* supportedPopupSignInMethods
SupportedPopupSignInMethods_WithTwitter == <<"google.com", "facebook.com", "github.com", "twitter.com">>
SupportedPopupSignInMethods == <<"google.com", "facebook.com", "github.com">>

Includes(seq, x) == \E i \in 1..Len(seq) : seq[i] = x

\* providers.find(p => supportedPopupSignInMethods.includes(p)); Undefined
\* when no element matches.
RECURSIVE FindSupported(_)
FindSupported(providers) ==
    IF providers = <<>> THEN Undefined
    ELSE IF Includes(SupportedPopupSignInMethods, Head(providers)) THEN Head(providers)
    ELSE FindSupported(Tail(providers))

\* getProvider(providerId); NoProvider stands for the default branch.
GetProvider(providerId) ==
    CASE providerId = "google.com" -> GoogleAuthProvider
      [] providerId = "facebook.com" -> FacebookAuthProvider
      [] providerId = "github.com" -> GithubAuthProvider
      [] OTHER -> NoProvider

\* linkedProvider.setCustomParameters({ login_hint: e.email })
SetLoginHint(p, email) == [p EXCEPT !.login_hint = email]

\* What fetchSignInMethodsForEmail may resolve with.
SignInMethodLists ==
    {<<>>, <<"twitter.com", "emailLink">>, <<"password", "github.com">>,
     <<"github.com", "google.com">>, <<"facebook.com">>}

\* ------------------------------------------------------------ facade calls
\* A settlement of a promise.
Pending == [kind |-> "pending", value |-> Undefined]
Resolved(value) == [kind |-> "resolved", value |-> value]
Rejected(reason) == [kind |-> "rejected", value |-> reason]

\* One invocation of an SDK function, with the settlement of its promise.
SdkCall(fn, a, b) == [fn |-> fn, a |-> a, b |-> b, result |-> Pending]

\* A call of a facade function: the function, the await it is suspended at,
\* its locals (providerObj, scopes, linkedProvider, the caught e), the SDK
\* functions it has invoked so far, and the settlement of its own promise.
\* A local is kept only while the code can still read it.
NewCall(op) ==
    [op |-> op, pc |-> "start", providerObj |-> NoProvider, scopes |-> <<>>,
     linkedProvider |-> NoProvider, e |-> Undefined, log |-> <<>>, ret |-> Pending]

NoCall == NewCall("none")

\* The call r invokes an SDK function and suspends at the await named pc.
Invoke(r, pc, sdkCall) == [r EXCEPT !.pc = pc, !.log = Append(@, sdkCall)]

\* The SDK promise the call r awaits settles with result.
Settle(r, result) == [r EXCEPT !.log[Len(r.log)].result = result]

\* The call r ends: its promise settles with ret.
Finish(r, ret) ==
    [r EXCEPT !.pc = "done", !.ret = ret, !.providerObj = NoProvider, !.scopes = <<>>]

\* ------------------------------------------------------------------ state
VARIABLES
    state,               \* the reducer's state
    phase,               \* "rendered" (effect not yet run), "mounted", "unmounted"
    listening,           \* the auth-state listener is registered with the SDK
    subscriptions,       \* how many times onAuthStateChanged has been called
    calls,               \* the bag of facade calls in flight
    settled,             \* the call whose promise has just settled, or NoCall
    notified,            \* the user of the last delivered notification, or "none"
    facadeUsed,          \* a facade function has been called
    history,             \* the states rendered before any facade call, as loading or firstCheck changed
    fold,                \* the reducer applied to drawn patches (SpecReduce)
    limit,               \* how many facade calls the application lets overlap
    hook                 \* what useFirebaseAuth() gave the consumer: "none" before it is called,
                         \* "facade", or the error it threw

vars == <<state, phase, listening, subscriptions, calls,
          settled, notified, facadeUsed, history, fold, limit, hook>>

Snapshot(s) == [user |-> s.user, loading |-> s.loading, firstCheck |-> s.firstCheck]

\* The history once the state s is rendered: s is recorded when its loading
\* or its firstCheck differs from the last recorded one.
Rendered(h, s, used) ==
    IF used THEN <<>>
    ELSE IF h[Len(h)].loading = s.loading /\ h[Len(h)].firstCheck = s.firstCheck THEN h
    ELSE Append(h, Snapshot(s))

NoFold == [s |-> << >>, p1 |-> << >>, p2 |-> << >>, out |-> << >>, applied |-> 0]

Init ==
    /\ \E firebaseCurrentUser \in {Null} \cup Users :
          state = InitialState(firebaseCurrentUser)
    /\ phase = "rendered"
    /\ listening = FALSE
    /\ subscriptions = 0
    /\ calls = EmptyBag
    /\ settled = NoCall
    /\ notified = "none"
    /\ facadeUsed = FALSE
    /\ history = <<Snapshot(state)>>
    /\ fold = NoFold
    /\ limit = MaxCalls
    /\ hook = "none"

\* ------------------------------------------------- provider / subscription
\* setState({ loading: true })
LoadingPatch_ClearsError == [loading |-> TRUE, error |-> Undefined]
LoadingPatch == [loading |-> TRUE]

\* The patch of the auth-state callback.
AuthStatePatch_NoFirstCheck(user) ==
    [loading |-> FALSE, user |-> IF user = Null THEN Undefined ELSE user]
AuthStatePatch(user) ==
    [loading |-> FALSE,
     user |-> IF user = Null THEN Undefined ELSE user,
     firstCheck |-> TRUE]

\* The state after the first statement of the effect: !user && setState(...)
MountState_NoLoading(s) == s
MountState(s) == IF s.user = Undefined THEN Reduce(s, LoadingPatch) ELSE s

\* useEffect(() => { ...; return onAuthStateChanged(auth, callback) }, [])
MountEffect ==
    /\ phase = "rendered"
    /\ settled = NoCall
    /\ state' = MountState(state)
    /\ listening' = TRUE
    /\ subscriptions' = subscriptions + 1
    /\ phase' = "mounted"
    /\ history' = Rendered(history, state', facadeUsed)
    /\ UNCHANGED <<calls, settled, notified, facadeUsed, fold, limit, hook>>

\* The SDK calls the registered callback with the signed-in user or null.
AuthStateChanged(user) ==
    /\ listening
    /\ settled = NoCall
    /\ state' = Reduce(state, AuthStatePatch(user))
    /\ notified' = user
    /\ history' = Rendered(history, state', facadeUsed)
    /\ UNCHANGED <<phase, listening, subscriptions, calls,
                   settled, facadeUsed, fold, limit, hook>>

\* Whether the listener stays registered after the effect's cleanup, which
\* is the Unsubscribe function onAuthStateChanged returned.
ListeningAfterCleanup_Leaks(l) == l
ListeningAfterCleanup(l) == FALSE

Unmount ==
    /\ phase = "mounted"
    /\ settled = NoCall
    /\ phase' = "unmounted"
    /\ listening' = ListeningAfterCleanup(listening)
    /\ UNCHANGED <<state, subscriptions, calls, settled,
                   notified, facadeUsed, history, fold, limit, hook>>

\* ------------------------------------------------------------- auth facade
\* useContext(FirebaseContext): null (the createContext default) when no
\* FirebaseAuthProvider is an ancestor of the consumer.
UseContext(p) == IF p = "absent" THEN Null ELSE "value"

\* if (firebaseContext === null) throw ...; otherwise the facade is returned.
HookResult_NoCheck(firebaseContext) == "facade"
HookResult(firebaseContext) ==
    IF firebaseContext = Null THEN Err_NoProvider ELSE "facade"

\* A consumer component renders and calls useFirebaseAuth().
UseFirebaseAuth ==
    /\ phase # "unmounted"
    /\ settled = NoCall
    /\ hook' = HookResult(UseContext(phase))
    /\ UNCHANGED <<state, phase, listening, subscriptions, calls, settled, notified,
                   facadeUsed, history, fold, limit>>

\* A facade function can be called: the consumer holds the facade, the caller
\* has been handed every earlier result and fewer than limit calls are in flight.
CanCall == hook = "facade" /\ settled = NoCall /\ BagCardinality(calls) < limit

InFlight == BagToSet(calls)

Add(r) == calls (+) SetToBag({r})
Replace(old, new) == (calls (-) SetToBag({old})) (+) SetToBag({new})
Remove(r) == calls (-) SetToBag({r})

\* The patch of the catch handlers: setState({ error: e, loading: false })
CatchPatch_KeepsLoading(e) == [error |-> e]
CatchPatch(e) == [error |-> e, loading |-> FALSE]

Start ==
    /\ facadeUsed' = TRUE
    /\ history' = <<>>
    /\ UNCHANGED <<phase, listening, subscriptions, notified, fold, limit, hook>>

Continue ==
    UNCHANGED <<phase, listening, subscriptions, notified,
                facadeUsed, history, fold, limit, hook>>

\* The settled promise is handed to the caller of the facade function.
ReturnToCaller ==
    /\ settled # NoCall
    /\ settled' = NoCall
    /\ UNCHANGED <<state, phase, listening, subscriptions, calls,
                   notified, facadeUsed, history, fold, limit, hook>>

\* signInWithEmailAndPassword: setState({ loading: true }), then the SDK call.
SignInWithEmailAndPassword ==
    /\ CanCall
    /\ state' = Reduce(state, LoadingPatch)
    /\ calls' = Add(Invoke(NewCall("signInWithEmailAndPassword"), "await",
                           SdkCall("signInWithEmailAndPassword", "email", "password")))
    /\ UNCHANGED settled
    /\ Start

\* The SDK promise resolves: the facade promise resolves with the credential.
\* The same with the signed-in user stored from the resolved credential.
SignInWithEmailAndPasswordResolved_SetsUser ==
    /\ settled = NoCall
    /\ \E r \in InFlight, uc \in UserCredentials :
        /\ r.op = "signInWithEmailAndPassword"
        /\ calls' = Remove(r)
        /\ settled' = Finish(Settle(r, Resolved(uc)), Resolved(uc))
        /\ state' = Reduce(state, [user |-> CredentialUser(uc)])
    /\ Continue

SignInWithEmailAndPasswordResolved ==
    /\ settled = NoCall
    /\ \E r \in InFlight, uc \in UserCredentials :
        /\ r.op = "signInWithEmailAndPassword"
        /\ calls' = Remove(r)
        /\ settled' = Finish(Settle(r, Resolved(uc)), Resolved(uc))
    /\ UNCHANGED state
    /\ Continue

\* The SDK promise rejects: .catch stores the error and resolves with undefined.
SignInWithEmailAndPasswordRejected ==
    /\ settled = NoCall
    /\ \E r \in InFlight, e \in PasswordErrors :
        /\ r.op = "signInWithEmailAndPassword"
        /\ state' = Reduce(state, CatchPatch(e))
        /\ calls' = Remove(r)
        /\ settled' = Finish(Settle(r, Rejected(e)), Resolved(Undefined))
    /\ Continue

\* signOut: setState({ loading: true }); return firebaseSignOut(auth)
SignOut ==
    /\ CanCall
    /\ state' = Reduce(state, LoadingPatch)
    /\ calls' = Add(Invoke(NewCall("signOut"), "await", SdkCall("signOut", Undefined, Undefined)))
    /\ UNCHANGED settled
    /\ Start

\* return sdkPromise: the facade promise settles as the SDK promise does, a
\* rejection included, and the state is not touched.
Adopt(op, values, errors) ==
    /\ settled = NoCall
    /\ \E r \in InFlight :
        /\ r.op = op
        /\ calls' = Remove(r)
        /\ \E result \in {Resolved(v) : v \in values} \cup {Rejected(e) : e \in errors} :
             settled' = Finish(Settle(r, result), result)
    /\ UNCHANGED state
    /\ Continue

SignOutSettled == Adopt("signOut", {Undefined}, OtherErrors)

\* createUserWithEmailAndPassword: as signInWithEmailAndPassword.
CreateUserWithEmailAndPassword ==
    /\ CanCall
    /\ state' = Reduce(state, LoadingPatch)
    /\ calls' = Add(Invoke(NewCall("createUserWithEmailAndPassword"), "await",
                           SdkCall("createUserWithEmailAndPassword", "email", "password")))
    /\ UNCHANGED settled
    /\ Start

CreateUserWithEmailAndPasswordResolved ==
    /\ settled = NoCall
    /\ \E r \in InFlight, uc \in UserCredentials :
        /\ r.op = "createUserWithEmailAndPassword"
        /\ calls' = Remove(r)
        /\ settled' = Finish(Settle(r, Resolved(uc)), Resolved(uc))
    /\ UNCHANGED state
    /\ Continue

CreateUserWithEmailAndPasswordRejected ==
    /\ settled = NoCall
    /\ \E r \in InFlight, e \in PasswordErrors :
        /\ r.op = "createUserWithEmailAndPassword"
        /\ state' = Reduce(state, CatchPatch(e))
        /\ calls' = Remove(r)
        /\ settled' = Finish(Settle(r, Rejected(e)), Resolved(Undefined))
    /\ Continue

\* The functions that only forward to the SDK.
\* The same preceded by setState({ loading: true }).
Forward_SetsLoading(op, a) ==
    /\ CanCall
    /\ calls' = Add(Invoke(NewCall(op), "await", SdkCall(op, a, Undefined)))
    /\ state' = Reduce(state, LoadingPatch)
    /\ UNCHANGED settled
    /\ Start

Forward(op, a) ==
    /\ CanCall
    /\ calls' = Add(Invoke(NewCall(op), "await", SdkCall(op, a, Undefined)))
    /\ UNCHANGED <<state, settled>>
    /\ Start

SendPasswordResetEmail == Forward("sendPasswordResetEmail", "email")
SendPasswordResetEmailSettled == Adopt("sendPasswordResetEmail", {Undefined}, OtherErrors)

VerifyPasswordResetCode == Forward("verifyPasswordResetCode", "code")
VerifyPasswordResetCodeSettled == Adopt("verifyPasswordResetCode", {"x@example.com"}, OtherErrors)

ConfirmPasswordReset == Forward("confirmPasswordReset", "code")
ConfirmPasswordResetSettled == Adopt("confirmPasswordReset", {Undefined}, OtherErrors)

ApplyActionCode == Forward("applyActionCode", "code")
ApplyActionCodeSettled == Adopt("applyActionCode", {Undefined}, OtherErrors)

\* if (!user) throw new Error("User is not logged in")
NotLoggedIn_Inverted(user) == user # Undefined
NotLoggedIn(user) == user = Undefined

\* updateProfile and updatePassword: the user is the one of the context value
\* the facade was built from, which is the rendered state.
UpdateWithUser(op) ==
    /\ CanCall
    /\ IF NotLoggedIn(state.user)
       THEN /\ settled' = Finish(NewCall(op), Rejected(Err_NotLoggedIn))
            /\ UNCHANGED calls
       ELSE /\ calls' = Add(Invoke(NewCall(op), "await", SdkCall(op, state.user, Undefined)))
            /\ UNCHANGED settled
    /\ UNCHANGED state
    /\ Start

UpdateProfile == UpdateWithUser("updateProfile")
UpdateProfileSettled == Adopt("updateProfile", {Undefined}, OtherErrors)

UpdatePassword == UpdateWithUser("updatePassword")
UpdatePasswordSettled == Adopt("updatePassword", {Undefined}, OtherErrors)

\* e.email && e.credential && e.code === "auth/account-exists-with-different-credential"
IsLinkableConflict_CodeOnly(e) ==
    ErrCode(e) = "auth/account-exists-with-different-credential"
IsLinkableConflict(e) ==
    /\ ErrEmail(e) # Undefined
    /\ ErrCredential(e) # Undefined
    /\ ErrCode(e) = "auth/account-exists-with-different-credential"

\* signInWithProvider up to the first await: setState({ loading: true }),
\* resolve the provider (an unrecognized string throws), attach the scopes,
\* open the popup.
SignInWithProvider(provider, scopes) ==
    /\ CanCall
    /\ state' = Reduce(state, LoadingPatch)
    /\ LET providerObj == ResolveProvider(provider)
           r == [NewCall("signInWithProvider") EXCEPT
                    !.providerObj = AttachScopes(provider, providerObj, scopes),
                    !.scopes = scopes]
       IN IF providerObj = NoProvider
          THEN /\ settled' = Finish(NewCall("signInWithProvider"), Rejected(Err_Unrecognized))
               /\ UNCHANGED calls
          ELSE /\ calls' = Add(Invoke(r, "popup",
                                      SdkCall("signInWithPopup", "providerObj", Undefined)))
               /\ UNCHANGED settled
    /\ Start

\* try: the popup resolves and its credential is returned.
PopupReturn_Null(userCredential) == Resolved(Null)
PopupReturn(userCredential) == Resolved(userCredential)

SignInWithProviderPopupResolved ==
    /\ settled = NoCall
    /\ \E r \in InFlight, uc \in UserCredentials :
        /\ r.op = "signInWithProvider" /\ r.pc = "popup"
        /\ calls' = Remove(r)
        /\ settled' = Finish(Settle(r, Resolved(uc)), PopupReturn(uc))
    /\ UNCHANGED state
    /\ Continue

\* catch (e): the linkable conflict starts the recovery by fetching the
\* sign-in methods of e.email; any other error is stored and null returned.
SignInWithProviderPopupRejected ==
    /\ settled = NoCall
    /\ \E r \in InFlight, e \in PopupErrors :
        /\ r.op = "signInWithProvider" /\ r.pc = "popup"
        /\ LET caught == [Settle(r, Rejected(e)) EXCEPT
                             !.e = e, !.providerObj = NoProvider, !.scopes = <<>>]
           IN IF IsLinkableConflict(e)
              THEN /\ calls' = Replace(r, Invoke(caught, "fetch",
                                 SdkCall("fetchSignInMethodsForEmail", ErrEmail(e), Undefined)))
                   /\ UNCHANGED <<state, settled>>
              ELSE /\ state' = Reduce(state, CatchPatch(e))
                   /\ calls' = Remove(r)
                   /\ settled' = Finish(caught, Resolved(Null))
    /\ Continue

\* The provider the second popup is opened against.
LinkedProvider_LastSupported(providers, email) ==
    SetLoginHint(GetProvider(FindSupported(
        [i \in 1..Len(providers) |-> providers[Len(providers) + 1 - i]])), email)
LinkedProvider(providers, email) ==
    SetLoginHint(GetProvider(FindSupported(providers)), email)

\* fetchSignInMethodsForEmail resolves: with no supported method the call
\* throws; otherwise the second popup is opened against the hinted provider.
SignInWithProviderFetchResolved ==
    /\ settled = NoCall
    /\ \E r \in InFlight, providers \in SignInMethodLists :
        /\ r.op = "signInWithProvider" /\ r.pc = "fetch"
        /\ LET fetched == Settle(r, Resolved(providers))
               firstPopupProviderMethod == FindSupported(providers)
           IN IF firstPopupProviderMethod = Undefined
              THEN /\ calls' = Remove(r)
                   /\ settled' = Finish(fetched, Rejected(Err_Unsupported))
              ELSE IF GetProvider(firstPopupProviderMethod) = NoProvider
              THEN /\ calls' = Remove(r)
                   /\ settled' = Finish(fetched, Rejected(Err_NoProviderImplemented))
              ELSE /\ calls' = Replace(r, Invoke(
                                 [fetched EXCEPT !.linkedProvider =
                                     LinkedProvider(providers, ErrEmail(r.e))],
                                 "popup2",
                                 SdkCall("signInWithPopup", "linkedProvider", Undefined)))
                   /\ UNCHANGED settled
    /\ UNCHANGED state
    /\ Continue

\* A rejection inside the catch block is not caught: the call rejects.
SignInWithProviderFetchRejected ==
    /\ settled = NoCall
    /\ \E r \in InFlight, e \in OtherErrors :
        /\ r.op = "signInWithProvider" /\ r.pc = "fetch"
        /\ calls' = Remove(r)
        /\ settled' = Finish(Settle(r, Rejected(e)), Rejected(e))
    /\ UNCHANGED state
    /\ Continue

\* result.user && linkWithCredential(result.user, e.credential): the SDK
\* functions invoked once the second popup has resolved with result.  The
\* link is not awaited.
LinkCalls(result, e) ==
    IF CredentialUser(result) # Undefined
    THEN <<SdkCall("linkWithCredential", CredentialUser(result), ErrCredential(e))>>
    ELSE <<>>

\* The second popup resolves: link, then return null.
SignInWithProviderSecondPopupResolved ==
    /\ settled = NoCall
    /\ \E r \in InFlight, result \in UserCredentials :
        /\ r.op = "signInWithProvider" /\ r.pc = "popup2"
        /\ calls' = Remove(r)
        /\ settled' = Finish([Settle(r, Resolved(result)) EXCEPT
                                 !.log = @ \o LinkCalls(result, r.e)],
                             Resolved(Null))
    /\ UNCHANGED state
    /\ Continue

\* The same with the rejection caught as the first popup's is.
SignInWithProviderSecondPopupRejected_Caught ==
    /\ settled = NoCall
    /\ \E r \in InFlight, e \in OtherErrors :
        /\ r.op = "signInWithProvider" /\ r.pc = "popup2"
        /\ state' = Reduce(state, CatchPatch(e))
        /\ calls' = Remove(r)
        /\ settled' = Finish(Settle(r, Rejected(e)), Resolved(Null))
    /\ Continue

SignInWithProviderSecondPopupRejected ==
    /\ settled = NoCall
    /\ \E r \in InFlight, e \in OtherErrors :
        /\ r.op = "signInWithProvider" /\ r.pc = "popup2"
        /\ calls' = Remove(r)
        /\ settled' = Finish(Settle(r, Rejected(e)), Rejected(e))
    /\ UNCHANGED state
    /\ Continue

Next ==
    \/ MountEffect
    \/ UseFirebaseAuth
    \/ \E user \in {Null} \cup Users : AuthStateChanged(user)
    \/ Unmount
    \/ ReturnToCaller
    \/ SignInWithEmailAndPassword
    \/ SignInWithEmailAndPasswordResolved
    \/ SignInWithEmailAndPasswordRejected
    \/ \E args \in SignInArgs : SignInWithProvider(args[1], args[2])
    \/ SignInWithProviderPopupResolved
    \/ SignInWithProviderPopupRejected
    \/ SignInWithProviderFetchResolved
    \/ SignInWithProviderFetchRejected
    \/ SignInWithProviderSecondPopupResolved
    \/ SignInWithProviderSecondPopupRejected
    \/ SignOut
    \/ SignOutSettled
    \/ CreateUserWithEmailAndPassword
    \/ CreateUserWithEmailAndPasswordResolved
    \/ CreateUserWithEmailAndPasswordRejected
    \/ SendPasswordResetEmail
    \/ SendPasswordResetEmailSettled
    \/ VerifyPasswordResetCode
    \/ VerifyPasswordResetCodeSettled
    \/ ConfirmPasswordReset
    \/ ConfirmPasswordResetSettled
    \/ ApplyActionCode
    \/ ApplyActionCodeSettled
    \/ UpdateProfile
    \/ UpdateProfileSettled
    \/ UpdatePassword
    \/ UpdatePasswordSettled

Spec == Init /\ [][Next]_vars

\* Facade calls made one at a time: a call starts only when none is in flight.
InitSerial ==
    /\ \E firebaseCurrentUser \in {Null} \cup Users :
          state = InitialState(firebaseCurrentUser)
    /\ phase = "rendered"
    /\ listening = FALSE
    /\ subscriptions = 0
    /\ calls = EmptyBag
    /\ settled = NoCall
    /\ notified = "none"
    /\ facadeUsed = FALSE
    /\ history = <<Snapshot(state)>>
    /\ fold = NoFold
    /\ limit = 1
    /\ hook = "none"

SpecSerial == InitSerial /\ [][Next]_vars

\* The consumer rendered with no FirebaseAuthProvider above it: there is no
\* provider, hence no reducer state and no subscription.
InitOrphan ==
    /\ state = << >>
    /\ phase = "absent"
    /\ listening = FALSE
    /\ subscriptions = 0
    /\ calls = EmptyBag
    /\ settled = NoCall
    /\ notified = "none"
    /\ facadeUsed = FALSE
    /\ history = << >>
    /\ fold = NoFold
    /\ limit = MaxCalls
    /\ hook = "none"

\* The consumer with or without a provider above it.
SpecAnyTree == (Init \/ InitOrphan) /\ [][Next]_vars

\* ------------------------------------------------- the reducer on its own
\* States and patches over the four fields: every subset of the fields, with
\* every choice of values.
Objects ==
    {[f \in D |-> full[f]] :
        full \in [user : {Undefined, "u1"}, loading : BOOLEAN,
                  error : {Undefined, E_network}, firstCheck : {TRUE}],
        D \in SUBSET Fields}

InitReduce ==
    /\ state = InitialState(Null)
    /\ phase = "rendered"
    /\ listening = FALSE
    /\ subscriptions = 0
    /\ calls = EmptyBag
    /\ settled = NoCall
    /\ notified = "none"
    /\ facadeUsed = FALSE
    /\ history = <<Snapshot(state)>>
    /\ \E s \in Objects : fold = [s |-> s, p1 |-> << >>, p2 |-> << >>, out |-> s, applied |-> 0]
    /\ limit = 0
    /\ hook = "none"

\* dispatch(newState), twice: fold.out is reduce(reduce(s, p1), p2).
Dispatch(newState) ==
    /\ fold.applied < 2
    /\ fold' = [s |-> fold.s,
                p1 |-> IF fold.applied = 0 THEN newState ELSE fold.p1,
                p2 |-> IF fold.applied = 1 THEN newState ELSE fold.p2,
                out |-> Reduce(fold.out, newState),
                applied |-> fold.applied + 1]
    /\ UNCHANGED <<state, phase, listening, subscriptions, calls, settled, notified,
                   facadeUsed, history, limit, hook>>

NextReduce == \E newState \in Objects : Dispatch(newState)

SpecReduce == InitReduce /\ [][NextReduce]_vars

\* ------------------------------------------------------------------ claims
\* C1: reduce is a shallow last-writer-wins merge.  After patches p1 and p2
\* have been applied to s in that order, each field has the value p2 carries
\* for it, else the value p1 carries, else the value of s, and every field
\* that s or an earlier patch carried is still carried.
C1_LastWriterWins ==
    /\ fold.applied >= 1 =>
         /\ DOMAIN fold.s \subseteq DOMAIN fold.out
         /\ DOMAIN fold.p1 \subseteq DOMAIN fold.out
    /\ fold.applied = 2 =>
         /\ DOMAIN fold.out = (DOMAIN fold.s) \cup (DOMAIN fold.p1) \cup (DOMAIN fold.p2)
         /\ \A f \in DOMAIN fold.out :
              fold.out[f] = IF f \in DOMAIN fold.p2 THEN fold.p2[f]
                            ELSE IF f \in DOMAIN fold.p1 THEN fold.p1[f]
                            ELSE fold.s[f]

\* A field of s kept through both patches, a field p1 wrote and p2 left, and
\* a field both wrote with different values.
C1_Witness ==
    /\ fold.applied = 2
    /\ "error" \in DOMAIN fold.s /\ "error" \notin (DOMAIN fold.p1) \cup (DOMAIN fold.p2)
    /\ "user" \in (DOMAIN fold.s) \cap (DOMAIN fold.p1) /\ "user" \notin DOMAIN fold.p2
    /\ fold.s.user # fold.p1.user
    /\ "loading" \in (DOMAIN fold.p1) \cap (DOMAIN fold.p2)
    /\ fold.p1.loading # fold.p2.loading
    /\ fold.out.loading = fold.p2.loading

\* The facade call whose promise settles in this step.
Completes(ops) == settled = NoCall /\ settled' # NoCall /\ settled'.op \in ops

\* A facade call of one of ops starts in this step: it is suspended at its
\* first await, or it has thrown before reaching one.
Starts(ops) ==
    /\ settled = NoCall
    /\ \/ settled' # NoCall /\ settled'.op \in ops /\ calls' = calls
       \/ \E r \in BagToSet(calls') :
            r.op \in ops /\ Len(r.log) = 1 /\ CopiesIn(r, calls') > CopiesIn(r, calls)

\* C2: firstCheck is false until the first auth-state notification has been
\* delivered and true in every state after it: it is true exactly when a
\* notification has been delivered, and no step takes it from true to false.
C2_FirstCheck ==
    /\ [](state.firstCheck <=> notified # "none")
    /\ [][state.firstCheck => state'.firstCheck]_vars

\* firstCheck is true after a notification, a failed sign-in and a later
\* notification of no user.
C2_Witness ==
    /\ state.firstCheck
    /\ notified = Null
    /\ Get(state, "error") = E_network
    /\ phase = "mounted"

\* C3: mounted with no current user and no facade call made, the rendered
\* states are loading:false, then loading:true from the mount effect, then
\* loading:false with firstCheck:true from the first notification, and
\* nothing else; the listener is registered only once loading is true.
C3_MountSequence ==
    (~facadeUsed /\ history[1].user = Undefined) =>
        /\ history[1].loading = FALSE /\ history[1].firstCheck = FALSE
        /\ Len(history) >= 2 => history[2].loading = TRUE /\ history[2].firstCheck = FALSE
        /\ Len(history) >= 3 => history[3].loading = FALSE /\ history[3].firstCheck = TRUE
        /\ Len(history) = (IF phase = "rendered" THEN 1 ELSE IF notified = "none" THEN 2 ELSE 3)
        /\ state.loading = history[Len(history)].loading
        /\ state.firstCheck = history[Len(history)].firstCheck
        /\ listening => Len(history) >= 2

C3_Witness ==
    /\ ~facadeUsed
    /\ history[1].user = Undefined
    /\ Len(history) = 3
    /\ notified = "u1"
    /\ state.user = "u1"

PasswordOps == {"signInWithEmailAndPassword", "createUserWithEmailAndPassword"}

\* C4 as stated: a rejected password sign-in or account creation resolves
\* with undefined and leaves loading false, the error stored and no user.
C4_AsStated ==
    (settled.op \in PasswordOps /\ settled.log[1].result.kind = "rejected") =>
        /\ settled.ret = Resolved(Undefined)
        /\ state.loading = FALSE
        /\ Get(state, "error") = settled.log[1].result.value
        /\ state.user = Undefined

\* C4: a rejected password sign-in or account creation resolves with
\* undefined, and the step that settles it leaves loading false and the
\* thrown error stored and does not change user (which stays undefined when
\* no user was signed in).
C4_RejectedSignIn ==
    [][(Completes(PasswordOps) /\ settled'.log[1].result.kind = "rejected") =>
         /\ settled'.ret = Resolved(Undefined)
         /\ state'.loading = FALSE
         /\ Get(state', "error") = settled'.log[1].result.value
         /\ state'.user = state.user]_vars

C4_Witness ==
    /\ settled.op = "createUserWithEmailAndPassword"
    /\ settled.log[1].result = Rejected(E_network)
    /\ settled.ret = Resolved(Undefined)
    /\ state.user = Undefined
    /\ state.loading = FALSE
    /\ Get(state, "error") = E_network

LoadingOps == PasswordOps \cup {"signInWithProvider", "signOut"}

\* C5: a call of a function that sets loading:true, made with no other call
\* overlapping, ends idle: when its SDK call has rejected, the call resolves
\* with undefined or null, the error is stored and loading is false.
C5_IdleLoadingIdle ==
    (settled.op \in LoadingOps /\ settled.log # <<>>
        /\ settled.log[Len(settled.log)].result.kind = "rejected") =>
        /\ settled.ret \in {Resolved(Undefined), Resolved(Null)}
        /\ Get(state, "error") = settled.log[Len(settled.log)].result.value
        /\ state.loading = FALSE
\* The facade calls in flight and the one that has just settled.
Live == BagToSet(calls) \cup {settled}

SupportedMethods == {"google.com", "facebook.com", "github.com"}

HasSupported(providers) == \E i \in 1..Len(providers) : providers[i] \in SupportedMethods

\* The first element of providers that is a supported method.
FirstSupported(providers) ==
    providers[CHOOSE i \in 1..Len(providers) :
                 /\ providers[i] \in SupportedMethods
                 /\ \A j \in 1..(i - 1) : providers[j] \notin SupportedMethods]

\* The call r has caught the linkable conflict and the methods fetched for
\* its email contain a supported one.
Recovering(r) ==
    /\ r.op = "signInWithProvider"
    /\ Len(r.log) >= 2
    /\ r.log[2].result.kind = "resolved"
    /\ HasSupported(r.log[2].result.value)

\* C6: in the recovery from account-exists-with-different-credential for
\* email X, when the fetched methods contain a supported one, the SDK calls
\* are made in this order: the failed popup, the fetch of the methods of X, a
\* second popup against the provider of the first supported fetched method
\* with login_hint X, and, only once that popup has resolved, the link of the
\* pending credential to the user the second popup returned.
C6_RecoveryOrder ==
    \A r \in Live : Recovering(r) =>
        /\ r.log[1].fn = "signInWithPopup" /\ r.log[1].a = "providerObj"
        /\ r.log[1].result = Rejected(E_conflict)
        /\ r.log[2].fn = "fetchSignInMethodsForEmail" /\ r.log[2].a = "x@example.com"
        /\ Len(r.log) \in 3..4
        /\ r.log[3].fn = "signInWithPopup" /\ r.log[3].a = "linkedProvider"
        /\ r.linkedProvider.providerId = FirstSupported(r.log[2].result.value)
        /\ r.linkedProvider.login_hint = "x@example.com"
        /\ r.pc = "popup2" <=> r.log[3].result = Pending
        /\ r.log[3].result.kind = "resolved" <=> Len(r.log) = 4
        /\ Len(r.log) = 4 =>
             /\ r.log[4].fn = "linkWithCredential"
             /\ r.log[4].a = CredentialUser(r.log[3].result.value)
             /\ r.log[4].b = "pendingCredential"

C6_Witness ==
    /\ Recovering(settled)
    /\ settled.log[2].result.value = <<"password", "github.com">>
    /\ settled.linkedProvider.class = "GithubAuthProvider"
    /\ Len(settled.log) = 4
    /\ settled.log[4].a = "u1"
    /\ state.user = Undefined

\* The call that settles in this step has caught the linkable conflict and
\* none of the methods fetched for its email is supported.
SettlesUnsupported ==
    /\ Completes({"signInWithProvider"})
    /\ Len(settled'.log) >= 2
    /\ settled'.log[2].result.kind = "resolved"
    /\ ~HasSupported(settled'.log[2].result.value)

\* A call catches the linkable conflict in this step and fetches the methods.
CatchesConflict ==
    \E r \in BagToSet(calls') : r.pc = "fetch" /\ CopiesIn(r, calls') > CopiesIn(r, calls)

ErrorNotWritten ==
    /\ ("error" \in DOMAIN state') = ("error" \in DOMAIN state)
    /\ Get(state', "error") = Get(state, "error")

\* C7: when none of the methods fetched after the conflict is supported, the
\* call rejects with the unsupported-provider error, having opened no second
\* popup and linked nothing, and neither the step that catches the conflict
\* nor the step that rejects writes the error field of the state.
C7_UnsupportedRejects ==
    [][/\ SettlesUnsupported =>
             /\ settled'.ret = Rejected(Err_Unsupported)
             /\ Len(settled'.log) = 2
             /\ settled'.log[1].fn = "signInWithPopup"
             /\ settled'.log[2].fn = "fetchSignInMethodsForEmail"
             /\ settled'.linkedProvider = NoProvider
             /\ ErrorNotWritten
       /\ CatchesConflict => ErrorNotWritten]_vars

C7_Witness ==
    /\ settled.op = "signInWithProvider"
    /\ settled.ret = Rejected(Err_Unsupported)
    /\ settled.log[2].result.value = <<"twitter.com", "emailLink">>
    /\ "error" \notin DOMAIN state
    /\ state.loading = TRUE

\* C8: when the first popup of signInWithProvider resolves, the call resolves
\* with the credential the SDK produced, and neither the step that starts the
\* call nor the step that settles it changes the error field of the state.
C8_PopupSuccess ==
    [][/\ (Completes({"signInWithProvider"}) /\ Len(settled'.log) = 1
              /\ settled'.log[1].result.kind = "resolved") =>
             /\ settled'.ret = Resolved(settled'.log[1].result.value)
             /\ settled'.ret.value \in UserCredentials
             /\ Get(state', "error") = Get(state, "error")
       /\ Starts({"signInWithProvider"}) => Get(state', "error") = Get(state, "error")]_vars

C8_Witness ==
    /\ settled.op = "signInWithProvider"
    /\ settled.ret = Resolved("credential(u1)")
    /\ Get(state, "error") = E_conflictNoCred

\* C9: the auth-state listener is registered once, by the mount effect, and
\* removed at unmount: onAuthStateChanged has been called exactly once from
\* the mount on, the listener is registered exactly while the provider is
\* mounted, and after the unmount no notification is delivered.
C9_SubscriptionScoped ==
    /\ [](subscriptions = (IF phase = "rendered" THEN 0 ELSE 1))
    /\ [](listening <=> phase = "mounted")
    /\ [][phase = "unmounted" => ~(\E user \in {Null} \cup Users : AuthStateChanged(user))]_vars

C9_Witness ==
    /\ phase = "unmounted"
    /\ ~listening
    /\ notified = "u1"
    /\ settled.op = "signOut"

UpdateOps == {"updateProfile", "updatePassword"}

AllOps ==
    LoadingOps \cup UpdateOps \cup
    {"sendPasswordResetEmail", "verifyPasswordResetCode", "confirmPasswordReset",
     "applyActionCode"}

\* C11: with no FirebaseAuthProvider above the consumer, useFirebaseAuth()
\* throws the configuration error and hands out no facade: no facade call
\* is ever started or settled, no SDK function invoked and no state written.
C11_NoProviderNoFacade ==
    phase = "absent" =>
        /\ hook \in {"none", Err_NoProvider}
        /\ calls = EmptyBag
        /\ settled = NoCall
        /\ ~facadeUsed
        /\ state = << >>

C11_Witness ==
    /\ phase = "absent"
    /\ hook = Err_NoProvider

\* C12: whenever a call of a function that sets loading:true is in flight,
\* loading is true.
C12_LoadingWhileInFlight ==
    \A r \in BagToSet(calls) : r.op \in LoadingOps => state.loading = TRUE

\* C13: when the first popup rejects with anything but the conflict that
\* carries email and credential, signInWithProvider stores that failure as
\* error, sets loading false and resolves with null, having invoked nothing
\* but the popup; a call goes on to the method lookup only after that
\* conflict.
C13_OtherPopupFailure ==
    /\ [](\A r \in Live :
            (r.op = "signInWithProvider" /\ Len(r.log) >= 2) =>
                r.log[1].result = Rejected(E_conflict))
    /\ [][(Completes({"signInWithProvider"}) /\ Len(settled'.log) = 1
              /\ settled'.log[1].result.kind = "rejected") =>
             /\ settled'.log[1].result.value \in PopupErrors \ {E_conflict}
             /\ settled'.ret = Resolved(Null)
             /\ Get(state', "error") = settled'.log[1].result.value
             /\ state'.loading = FALSE
             /\ settled'.linkedProvider = NoProvider]_vars

\* The conflict without a pending credential is stored like any other failure.
C13_Witness ==
    /\ settled.op = "signInWithProvider"
    /\ settled.log = <<[SdkCall("signInWithPopup", "providerObj", Undefined) EXCEPT
                           !.result = Rejected(E_conflictNoCred)]>>
    /\ settled.ret = Resolved(Null)
    /\ Get(state, "error") = E_conflictNoCred
    /\ state.loading = FALSE

\* Provider classes with addScope.
ScopedClasses ==
    {"GoogleAuthProvider", "FacebookAuthProvider", "GithubAuthProvider", "OAuthProvider"}

\* C14: while the first popup of a signInWithProvider call with requested
\* scopes is open, every requested scope is on the provider the popup was
\* opened against, if that provider's class supports scopes.
C14_ScopesAttached ==
    \A r \in BagToSet(calls) :
        (r.op = "signInWithProvider" /\ r.pc = "popup" /\ r.scopes # <<>>
            /\ r.providerObj.class \in ScopedClasses) =>
            \A i \in 1..Len(r.scopes) : Includes(r.providerObj.scopes, r.scopes[i])

\* C15: when the second popup of the recovery rejects, the call rejects with
\* that failure, linkWithCredential is not invoked, and the step writes
\* nothing to the state.
C15_SecondPopupUncaught ==
    [][(Completes({"signInWithProvider"}) /\ Len(settled'.log) >= 3
          /\ settled'.log[3].result.kind = "rejected") =>
         /\ settled'.ret = Rejected(settled'.log[3].result.value)
         /\ Len(settled'.log) = 3
         /\ settled'.log[3].fn = "signInWithPopup"
         /\ ErrorNotWritten
         /\ state' = state]_vars

C15_Witness ==
    /\ settled.op = "signInWithProvider"
    /\ Len(settled.log) = 3
    /\ settled.linkedProvider.class = "FacebookAuthProvider"
    /\ settled.ret = Rejected(E_network)
    /\ "error" \notin DOMAIN state
    /\ state.loading = TRUE

\* C16: signInWithProvider called with a string opens a popup against a
\* concrete provider when the string is a member of SIGNIN_PROVIDERS, and for
\* any other string rejects with the unrecognized-provider error, opening no
\* popup and leaving the error field as it was.
C16_EveryMemberResolves ==
    [][\A args \in SignInArgs :
          (args[1].isString /\ SignInWithProvider(args[1], args[2])) =>
              IF args[1].str \in EnumValues
              THEN /\ settled' = NoCall
                   /\ \E r \in BagToSet(calls') :
                        /\ r.op = "signInWithProvider" /\ r.pc = "popup"
                        /\ r.providerObj # NoProvider
                        /\ CopiesIn(r, calls') > CopiesIn(r, calls)
              ELSE /\ settled'.ret = Rejected(Err_Unrecognized)
                   /\ calls' = calls
                   /\ ErrorNotWritten]_vars

PassThroughOps ==
    {"sendPasswordResetEmail", "verifyPasswordResetCode", "confirmPasswordReset",
     "applyActionCode"}

\* C17: neither the step that starts nor the step that completes one of the
\* four pass-through calls changes any field of the state, and the call
\* settles as the SDK promise did: a rejection reaches the caller.
C17_PassThrough ==
    [][/\ (Starts(PassThroughOps) \/ Completes(PassThroughOps)) => state' = state
       /\ Completes(PassThroughOps) =>
            /\ Len(settled'.log) = 1
            /\ settled'.log[1].fn = settled'.op
            /\ settled'.ret = settled'.log[1].result]_vars

C17_Witness ==
    /\ settled.op = "confirmPasswordReset"
    /\ settled.ret = Rejected(E_network)
    /\ state = [user |-> "u1", loading |-> FALSE, firstCheck |-> TRUE]

\* C18: once a notification has been delivered, user is the value the last
\* one carried (undefined for null); and a step that changes user or
\* firstCheck is the delivery of a notification: it merges the callback's
\* patch and it neither starts, advances nor completes a facade call.
C18_UserFromNotifications ==
    /\ [](notified # "none" =>
            state.user = (IF notified = Null THEN Undefined ELSE notified))
    /\ [][(state'.user # state.user \/ state'.firstCheck # state.firstCheck) =>
            /\ listening
            /\ state' = Reduce(state, AuthStatePatch(notified'))
            /\ calls' = calls
            /\ settled = NoCall /\ settled' = NoCall]_vars

C18_Witness ==
    /\ notified = Null
    /\ state.user = Undefined
    /\ state.firstCheck
    /\ settled.op = "signInWithEmailAndPassword"
    /\ settled.ret = Resolved("credential(u1)")

HasError(s) == Get(s, "error") # Undefined

\* C19: once the state holds an error, every later state holds one, and a
\* step that changes it is the completion of a failing facade call, which
\* stores the error its SDK call rejected with.
C19_ErrorSticky ==
    [][HasError(state) =>
         /\ HasError(state')
         /\ state'.error # state.error =>
              /\ Completes(LoadingOps)
              /\ settled'.log[Len(settled'.log)].result = Rejected(state'.error)]_vars

C19_Witness ==
    /\ Get(state, "error") = E_network
    /\ notified = "u1"
    /\ state.loading = FALSE
    /\ settled.op = "signInWithEmailAndPassword"
    /\ settled.ret = Resolved("credential(u1)")

====
